---- MODULE Spec2Model ----
(***************************************************************************)
(* MIDIVibes.ino: a vibraphone whose bars carry piezo discs.  Every pass   *)
(* of loop() reads the sustain pedal, turns every sounding note off when   *)
(* the pedal has just been let go, and then reads the analog pin of every  *)
(* pad and lets do_channel() decide on a note on or a note off.            *)
(*                                                                         *)
(* One action, Loop, is one whole pass of loop(): the sketch is single     *)
(* threaded and a pass runs to its end before the next one starts.         *)
(***************************************************************************)
EXTENDS Integers, Sequences, FiniteSets, TLC

VARIABLES
    ARDUINO_NUMBER,  \* which column of pads this board was built for
    pads,            \* the pad table, pads[iROW][iCOLUMN]
    curPedalState,   \* the pedal state stored by the last pass
    led,             \* the level last written to LedPin
    analogValue,     \* analogValue[iROW]: what analogRead gave in the last pass
    serial,          \* the messages the last pass wrote to Serial, in order
    lastVelocity,    \* lastVelocity[iROW]: velocity of the pad's last message, -1 if none
    minSince,        \* minSince[iROW]: least value read since the pad went active, -1 while it is off
    cycle,           \* the number of passes of loop() so far
    scenarioPass     \* the number of passes of the scenario of C9 played so far

vars == <<ARDUINO_NUMBER, pads, curPedalState, led, analogValue, serial,
          lastVelocity, minSince, cycle, scenarioPass>>

----------------------------------------------------------------------------
(* Bounds of the model *)

\* Passes of loop() a behaviour runs through.  Two passes reach every
\* combination of pad state and pedal state; the third takes every pass
\* from each of them.
MaxCycles == 3

----------------------------------------------------------------------------
(* Program constants *)

minAmplitude == 30

curAmplitude == minAmplitude

velocitySensitive == FALSE

MIDI_CHANNEL == 0

LOW == "LOW"

HIGH == "HIGH"

\* COUNT_ENTRIES(pads)
ROWS == 16

COLUMNS == 3

\* The note column of the initialisers of pads, one tuple per row.
PadNotes ==
    << <<53, 54, 0>>, <<55, 56, 0>>, <<57, 58, 0>>, <<59, 61, 0>>,
       <<60, 63, 0>>, <<62, 66, 0>>, <<64, 68, 0>>, <<65, 70, 0>>,
       <<67, 73, 0>>, <<69, 75, 0>>, <<71, 78, 0>>, <<72, 80, 0>>,
       <<74, 82, 0>>, <<76, 85, 0>>, <<77, 87, 0>>, <<79,  0, 0>> >>

\* The rows the model polls: the first pad and the last one, whose slot in
\* column 1 has no note.  loop() treats every row alike.
Rows == {0, ROWS - 1}

Columns == 0 .. (COLUMNS - 1)

\* What analogRead can give, out of 0 .. 1023: two quiet values, the
\* threshold itself, a strike and the top of the range.
Samples == {5, 10, minAmplitude, 45, 1023}

----------------------------------------------------------------------------
(* struct pad_t and the table *)

\* A pad_t, its fields cut to their bit widths.
pad_t(isActive, note, minAmp, curAmp) ==
    [active       |-> isActive,
     note         |-> note % 128,
     minAmplitude |-> minAmp % 1024,
     curAmplitude |-> curAmp % 1024]

InitialPads ==
    [iROW \in Rows |->
        [iCOLUMN \in Columns |->
            pad_t(FALSE, PadNotes[iROW + 1][iCOLUMN + 1], minAmplitude, curAmplitude)]]

----------------------------------------------------------------------------
(* Arduino helpers *)

constrain(x, a, b) == IF x < a THEN a ELSE IF x > b THEN b ELSE x

map(x, in_min, in_max, out_min, out_max) ==
    ((x - in_min) * (out_max - out_min)) \div (in_max - in_min) + out_min

----------------------------------------------------------------------------
(* midi_send *)

\* The three bytes written to Serial.
midi_send(midi_message, pitch, midi_velocity) ==
    << (midi_message + MIDI_CHANNEL) % 256, pitch % 256, midi_velocity % 256 >>

\* An entry of serial: the bytes, tagged with the pad they were sent for and
\* the function that sent them.
Written(iROW, from, bytes) == [pad |-> iROW, from |-> from, bytes |-> bytes]

----------------------------------------------------------------------------
(* checkFootSwitchOnD2 *)

\* The pin is INPUT_PULLUP: HIGH is an open switch.  ret is the pedal state,
\* led the level written to LedPin.
checkFootSwitchOnD2(sustainPedalValue) ==
    IF sustainPedalValue = HIGH
    THEN [ret |-> FALSE, led |-> LOW]
    ELSE [ret |-> TRUE, led |-> HIGH]

----------------------------------------------------------------------------
(* do_channel *)

\* do_channel with one slip, named by bug:
\*   "triggersAtThreshold"  the trigger test is >= instead of >
\*   "retriggers"           a pad that is already active is triggered again
\*   "strictRelease"        the release test is < instead of <=
\*   "releasesInactive"     the release branch does not ask for pad.active
\*   "floorsToSample"       at release curAmplitude is set to the value read
\*   "noFloor"              curAmplitude is tracked and never set to minAmplitude
\*   "ignoresPedal"         the release does not ask for the pedal
\*   "invertedPedal"        the release asks for the pedal down instead of up
do_channel_variant(value, pad, iROW, pedal, bug) ==
    LET above == IF bug = "triggersAtThreshold"
                 THEN value >= pad.minAmplitude
                 ELSE value > pad.minAmplitude
        quiet(p) == IF bug = "strictRelease"
                    THEN value < p.minAmplitude
                    ELSE value <= p.minAmplitude
        triggered == [pad |-> [pad EXCEPT !.active = TRUE,
                                          !.curAmplitude = value % 1024],
                      out |-> << Written(iROW, "do_channel",
                                         midi_send(144, pad.note, 127)) >>]
    IN  IF above
        THEN IF ~pad.active \/ bug = "retriggers"
             THEN triggered
             ELSE [pad |-> pad, out |-> << >>]
        ELSE IF pad.active \/ bug = "releasesInactive"
             THEN LET tracked == IF value < pad.curAmplitude
                                 THEN [pad EXCEPT !.curAmplitude = value % 1024]
                                 ELSE pad
                  IN  IF quiet(tracked)
                      THEN LET floored ==
                                   IF bug = "floorsToSample"
                                   THEN [tracked EXCEPT !.curAmplitude = value % 1024]
                                   ELSE IF bug = "noFloor"
                                        THEN tracked
                                        ELSE [tracked EXCEPT
                                                !.curAmplitude = tracked.minAmplitude]
                               pedalUp == IF bug = "ignoresPedal"
                                          THEN TRUE
                                          ELSE IF bug = "invertedPedal"
                                               THEN pedal
                                               ELSE ~pedal
                           IN  IF pedalUp
                               THEN [pad |-> [floored EXCEPT !.active = FALSE],
                                     out |-> << Written(iROW, "do_channel",
                                                  midi_send(144, pad.note, 0)) >>]
                               ELSE [pad |-> floored, out |-> << >>]
                      ELSE [pad |-> tracked, out |-> << >>]
             ELSE [pad |-> pad, out |-> << >>]

do_channel_floorsToSample(value, pad, iROW, pedal) ==
    do_channel_variant(value, pad, iROW, pedal, "floorsToSample")

do_channel_noFloor(value, pad, iROW, pedal) ==
    do_channel_variant(value, pad, iROW, pedal, "noFloor")

do_channel_ignoresPedal(value, pad, iROW, pedal) ==
    do_channel_variant(value, pad, iROW, pedal, "ignoresPedal")

do_channel_invertedPedal(value, pad, iROW, pedal) ==
    do_channel_variant(value, pad, iROW, pedal, "invertedPedal")

do_channel_triggersAtThreshold(value, pad, iROW, pedal) ==
    do_channel_variant(value, pad, iROW, pedal, "triggersAtThreshold")

do_channel_retriggers(value, pad, iROW, pedal) ==
    do_channel_variant(value, pad, iROW, pedal, "retriggers")

do_channel_strictRelease(value, pad, iROW, pedal) ==
    do_channel_variant(value, pad, iROW, pedal, "strictRelease")

do_channel_releasesInactive(value, pad, iROW, pedal) ==
    do_channel_variant(value, pad, iROW, pedal, "releasesInactive")

\* One evaluation of a pad against the value read from its pin; pedal is
\* curPedalState as do_channel reads it.  Gives the pad afterwards and the
\* messages sent.
do_channel(value, pad, iROW, pedal) ==
    LET constrainedAnalogValue == constrain(value, 0, 300)
        mapped == map(constrainedAnalogValue, 0, 300, 0, 127)
        velocity == IF ~velocitySensitive THEN 127 ELSE mapped
    IN  IF value > pad.minAmplitude
        THEN IF ~pad.active
             THEN [pad |-> [pad EXCEPT !.active = TRUE,
                                       !.curAmplitude = value % 1024],
                   out |-> << Written(iROW, "do_channel",
                                      midi_send(144, pad.note, velocity)) >>]
             ELSE [pad |-> pad, out |-> << >>]
        ELSE IF pad.active
             THEN LET tracked == IF value < pad.curAmplitude
                                 THEN [pad EXCEPT !.curAmplitude = value % 1024]
                                 ELSE pad
                  IN  IF value <= tracked.minAmplitude
                      THEN LET floored == [tracked EXCEPT
                                              !.curAmplitude = tracked.minAmplitude]
                           IN  IF ~pedal
                               THEN [pad |-> [floored EXCEPT !.active = FALSE],
                                     out |-> << Written(iROW, "do_channel",
                                                  midi_send(144, pad.note, 0)) >>]
                               ELSE [pad |-> floored, out |-> << >>]
                      ELSE [pad |-> tracked, out |-> << >>]
             ELSE [pad |-> pad, out |-> << >>]

----------------------------------------------------------------------------
(* loop *)

\* release_pad that also puts curAmplitude back to minAmplitude.
release_pad_floors(pad, iROW) ==
    IF pad.active
    THEN [pad |-> [pad EXCEPT !.active = FALSE,
                              !.curAmplitude = pad.minAmplitude],
          out |-> << Written(iROW, "loop", midi_send(144, pad.note, 0)) >>]
    ELSE [pad |-> pad, out |-> << >>]

\* release_pad that sends the note off and leaves the pad active.
release_pad_keepsActive(pad, iROW) ==
    IF pad.active
    THEN [pad |-> pad,
          out |-> << Written(iROW, "loop", midi_send(144, pad.note, 0)) >>]
    ELSE [pad |-> pad, out |-> << >>]

\* The pedal went from on to off: one pad of the sweep that turns the notes off.
release_pad(pad, iROW) ==
    IF pad.active
    THEN [pad |-> [pad EXCEPT !.active = FALSE],
          out |-> << Written(iROW, "loop", midi_send(144, pad.note, 0)) >>]
    ELSE [pad |-> pad, out |-> << >>]

\* The sweep from row iROW on; st is [pads, out] so far.
RECURSIVE release_from(_, _, _)
release_from(iROW, st, COLUMN) ==
    IF iROW >= ROWS
    THEN st
    ELSE IF iROW \in Rows
         THEN LET r == release_pad(st.pads[iROW][COLUMN], iROW)
              IN  release_from(iROW + 1,
                      [pads |-> [st.pads EXCEPT ![iROW][COLUMN] = r.pad],
                       out  |-> st.out \o r.out],
                      COLUMN)
         ELSE release_from(iROW + 1, st, COLUMN)

\* pedal_edge that sweeps on either edge of the pedal.
pedal_edge_onAnyEdge(st, oldPedalState, newPedalState, COLUMN) ==
    IF oldPedalState # newPedalState
    THEN release_from(0, st, COLUMN)
    ELSE st

\* pedal_edge that sweeps when the pedal goes from off to on.
pedal_edge_onRising(st, oldPedalState, newPedalState, COLUMN) ==
    IF ~oldPedalState /\ newPedalState
    THEN release_from(0, st, COLUMN)
    ELSE st

\* The pedal edge: the sweep runs when the pedal changed from on to off.
pedal_edge(st, oldPedalState, newPedalState, COLUMN) ==
    IF oldPedalState /\ ~newPedalState
    THEN release_from(0, st, COLUMN)
    ELSE st

\* scan_from that reads the pin of row 0 for every pad.
RECURSIVE scan_from_sharedPin(_, _, _, _, _)
scan_from_sharedPin(iROW, st, adc, pedal, COLUMN) ==
    IF iROW >= ROWS
    THEN st
    ELSE IF iROW \in Rows
         THEN LET r == do_channel(adc[0], st.pads[iROW][COLUMN], iROW, pedal)
              IN  scan_from_sharedPin(iROW + 1,
                      [pads |-> [st.pads EXCEPT ![iROW][COLUMN] = r.pad],
                       out  |-> st.out \o r.out],
                      adc, pedal, COLUMN)
         ELSE scan_from_sharedPin(iROW + 1, st, adc, pedal, COLUMN)

\* scan_from that walks the rows from the last one down.
RECURSIVE scan_from_descending(_, _, _, _, _)
scan_from_descending(iROW, st, adc, pedal, COLUMN) ==
    IF iROW >= ROWS
    THEN st
    ELSE LET row == ROWS - 1 - iROW
         IN  IF row \in Rows
             THEN LET r == do_channel(adc[row], st.pads[row][COLUMN], row, pedal)
                  IN  scan_from_descending(iROW + 1,
                          [pads |-> [st.pads EXCEPT ![row][COLUMN] = r.pad],
                           out  |-> st.out \o r.out],
                          adc, pedal, COLUMN)
             ELSE scan_from_descending(iROW + 1, st, adc, pedal, COLUMN)

\* The scan of the pads from row iROW on, adc[iROW] being what the pin gives.
RECURSIVE scan_from(_, _, _, _, _)
scan_from(iROW, st, adc, pedal, COLUMN) ==
    IF iROW >= ROWS
    THEN st
    ELSE IF iROW \in Rows
         THEN LET r == do_channel(adc[iROW], st.pads[iROW][COLUMN], iROW, pedal)
              IN  scan_from(iROW + 1,
                      [pads |-> [st.pads EXCEPT ![iROW][COLUMN] = r.pad],
                       out  |-> st.out \o r.out],
                      adc, pedal, COLUMN)
         ELSE scan_from(iROW + 1, st, adc, pedal, COLUMN)

\* loop that stores the new pedal state after the scan of the pads, so that
\* do_channel still sees the old one.
loop_storesPedalLate(oldPads, oldPedalState, sustainPedalValue, adc, COLUMN) ==
    LET foot == checkFootSwitchOnD2(sustainPedalValue)
        newPedalState == foot.ret
        swept == pedal_edge([pads |-> oldPads, out |-> << >>],
                            oldPedalState, newPedalState, COLUMN)
        scanned == scan_from(0, swept, adc, oldPedalState, COLUMN)
    IN  [pads |-> scanned.pads,
         curPedalState |-> newPedalState,
         led |-> foot.led,
         serial |-> scanned.out]

\* loop that returns after the sweep in the pass where the pedal goes up.
loop_returnsAfterSweep(oldPads, oldPedalState, sustainPedalValue, adc, COLUMN) ==
    LET foot == checkFootSwitchOnD2(sustainPedalValue)
        newPedalState == foot.ret
        swept == pedal_edge([pads |-> oldPads, out |-> << >>],
                            oldPedalState, newPedalState, COLUMN)
        scanned == IF oldPedalState /\ ~newPedalState
                   THEN swept
                   ELSE scan_from(0, swept, adc, newPedalState, COLUMN)
    IN  [pads |-> scanned.pads,
         curPedalState |-> newPedalState,
         led |-> foot.led,
         serial |-> scanned.out]

\* loop that scans the pads before it handles the pedal edge.
loop_scansBeforeSweep(oldPads, oldPedalState, sustainPedalValue, adc, COLUMN) ==
    LET foot == checkFootSwitchOnD2(sustainPedalValue)
        newPedalState == foot.ret
        scanned == scan_from(0, [pads |-> oldPads, out |-> << >>],
                             adc, newPedalState, COLUMN)
        swept == pedal_edge(scanned, oldPedalState, newPedalState, COLUMN)
    IN  [pads |-> swept.pads,
         curPedalState |-> newPedalState,
         led |-> foot.led,
         serial |-> swept.out]

\* One pass: the pedal is read, the edge handled, the new state stored, and
\* only then the pads are scanned, so do_channel sees the new pedal state.
loop(oldPads, oldPedalState, sustainPedalValue, adc, COLUMN) ==
    LET foot == checkFootSwitchOnD2(sustainPedalValue)
        newPedalState == foot.ret
        swept == pedal_edge([pads |-> oldPads, out |-> << >>],
                            oldPedalState, newPedalState, COLUMN)
        scanned == scan_from(0, swept, adc, newPedalState, COLUMN)
    IN  [pads |-> scanned.pads,
         curPedalState |-> newPedalState,
         led |-> foot.led,
         serial |-> scanned.out]

----------------------------------------------------------------------------
(* The messages of a pass, seen per pad *)

\* The messages of s sent for pad iROW, in order.
OfPad(s, iROW) == SelectSeq(s, LAMBDA w : w.pad = iROW)

\* The velocity of the last message for pad iROW, given the one before the pass.
LastVelocityAfter(s, iROW, before) ==
    LET mine == OfPad(s, iROW)
    IN  IF mine = << >> THEN before ELSE mine[Len(mine)].bytes[3]

\* The least value read for pad iROW since it went active, after a pass
\* that sent s, read value and left the pad active or not: the value read
\* when the pass sent a note on for the pad, the lesser of the one before
\* and the value read when it was active all along, -1 when it is off.
MinSinceAfter(s, iROW, isActive, value, before) ==
    IF ~isActive
    THEN -1
    ELSE IF \E i \in 1 .. Len(s) : s[i].pad = iROW /\ s[i].bytes[3] # 0
         THEN value
         ELSE IF value < before THEN value ELSE before

----------------------------------------------------------------------------
(* The state machine *)

Init ==
    /\ ARDUINO_NUMBER \in Columns
    /\ pads = InitialPads
    /\ curPedalState = FALSE
    /\ led = LOW
    /\ analogValue = [iROW \in Rows |-> 0]
    /\ serial = << >>
    /\ lastVelocity = [iROW \in Rows |-> -1]
    /\ minSince = [iROW \in Rows |-> -1]
    /\ cycle = 0
    /\ scenarioPass = 0

\* One pass of loop() with the given pin level and conversions.
Pass(sustainPedalValue, adc) ==
    /\ \E after \in {loop(pads, curPedalState, sustainPedalValue, adc, ARDUINO_NUMBER)} :
          /\ pads' = after.pads
          /\ curPedalState' = after.curPedalState
          /\ led' = after.led
          /\ serial' = after.serial
          /\ analogValue' = adc
          /\ lastVelocity' = [iROW \in Rows |->
                                LastVelocityAfter(after.serial, iROW, lastVelocity[iROW])]
          /\ minSince' = [iROW \in Rows |->
                            MinSinceAfter(after.serial, iROW,
                                          after.pads[iROW][ARDUINO_NUMBER].active,
                                          adc[iROW], minSince[iROW])]
    /\ cycle' = cycle + 1
    /\ UNCHANGED ARDUINO_NUMBER

Loop ==
    /\ cycle < MaxCycles
    /\ \E sustainPedalValue \in {LOW, HIGH}, adc \in [Rows -> Samples] :
          Pass(sustainPedalValue, adc)
    /\ UNCHANGED scenarioPass

Next == Loop

Spec == Init /\ [][Next]_vars

----------------------------------------------------------------------------
(* What the claims speak of *)

\* COLUMN of loop(), and the pad of a row in it.
COLUMN == ARDUINO_NUMBER

Pad(iROW) == pads[iROW][COLUMN]

\* A message is a note on when its velocity is not 0, a note off when it is:
\* both go out under the status byte 0x90.
IsNoteOn(w) == w.bytes[1] = 144 /\ w.bytes[3] > 0

IsNoteOff(w) == w.bytes[1] = 144 /\ w.bytes[3] = 0

NoteOffs(s, iROW) == SelectSeq(OfPad(s, iROW), IsNoteOff)

NoteOns(s, iROW) == SelectSeq(OfPad(s, iROW), IsNoteOn)

\* The messages a pad can get in a pass.
NoteOnFor(iROW, pad) == Written(iROW, "do_channel", <<144, pad.note, 127>>)

ReleaseFor(iROW, pad) == Written(iROW, "do_channel", <<144, pad.note, 0>>)

SweepFor(iROW, pad) == Written(iROW, "loop", <<144, pad.note, 0>>)

----------------------------------------------------------------------------
(* C1 *)

\* The messages of a pass for one pad, wasActive being the pad's flag before
\* the pass: each is a note on or a note off, a note on comes only when the
\* pad is off and a note off only when it is on.
Alternates(s, iROW, wasActive) ==
    LET mine == OfPad(s, iROW)
    IN  \A i \in 1 .. Len(mine) :
            /\ IsNoteOn(mine[i]) \/ IsNoteOff(mine[i])
            /\ IsNoteOn(mine[i]) <=>
                  ~(IF i = 1 THEN wasActive ELSE IsNoteOn(mine[i - 1]))

\* The flag a pad has after the messages of a pass.
ActiveAfter(s, iROW, wasActive) ==
    LET mine == OfPad(s, iROW)
    IN  IF mine = << >> THEN wasActive ELSE IsNoteOn(mine[Len(mine)])

\* C1: for every pad the messages alternate note on, note off, note on, ...
\* starting with a note on: within every pass they alternate from the pad's
\* flag before the pass, the flag changes exactly as the messages say, and
\* so a pad is active exactly when its last message is a note on.
C1_Alternation ==
    /\ [](\A iROW \in Rows : Pad(iROW).active <=> lastVelocity[iROW] > 0)
    /\ [][\A iROW \in Rows :
            /\ Alternates(serial', iROW, pads[iROW][COLUMN].active)
            /\ pads'[iROW][COLUMN].active =
                   ActiveAfter(serial', iROW, pads[iROW][COLUMN].active)]_vars

\* A pad that was swept off and struck again in one pass: note off, note on.
C1_Witness ==
    \E iROW \in Rows :
        /\ Len(OfPad(serial, iROW)) = 2
        /\ IsNoteOff(OfPad(serial, iROW)[1])
        /\ IsNoteOn(OfPad(serial, iROW)[2])
        /\ Pad(iROW).active

----------------------------------------------------------------------------
(* C2 *)

\* C2: in every pass that reads the pedal as down, the pass it goes down in
\* included, no note off is sent for any pad and every pad that was active
\* before the pass is active after it, whatever its pin gives.
C2_PedalHolds ==
    [][curPedalState' =>
          /\ \A i \in 1 .. Len(serial') : ~IsNoteOff(serial'[i])
          /\ \A iROW \in Rows :
                pads[iROW][COLUMN].active => pads'[iROW][COLUMN].active]_vars

\* The pedal is down and a pad whose pin gave the threshold or less is
\* still active.
C2_Witness ==
    /\ cycle >= 2
    /\ curPedalState
    /\ \E iROW \in Rows :
          /\ Pad(iROW).active
          /\ analogValue[iROW] <= Pad(iROW).minAmplitude
          /\ OfPad(serial, iROW) = << >>

----------------------------------------------------------------------------
(* C3 *)

\* The pedal goes from down to up in the step.
PedalFalls == curPedalState /\ ~curPedalState'

\* C3 as claimed: when the pedal goes up, every active pad sends exactly one
\* note off in that pass and an inactive pad sends nothing in it.  It is
\* stated of the pads that have a note, so that it does not rest on what an
\* unused slot does.
C3_AsClaimed ==
    [][PedalFalls =>
          \A iROW \in Rows :
              pads[iROW][COLUMN].note # 0 =>
                  IF pads[iROW][COLUMN].active
                  THEN Len(NoteOffs(serial', iROW)) = 1
                  ELSE OfPad(serial', iROW) = << >>]_vars

\* C3 amended: when the pedal goes up, every active pad sends exactly one
\* note off in that pass, sent by the sweep of loop whatever its pin gives,
\* and an inactive pad sends no note off; an inactive pad whose pin gives
\* more than the threshold sends its note on in that same pass, and one
\* whose pin gives the threshold or less sends nothing.
C3_PedalRelease ==
    [][PedalFalls =>
          \A iROW \in Rows :
              LET pad == pads[iROW][COLUMN]
              IN  IF pad.active
                  THEN /\ NoteOffs(serial', iROW) = << SweepFor(iROW, pad) >>
                       /\ OfPad(serial', iROW)[1] = SweepFor(iROW, pad)
                  ELSE /\ NoteOffs(serial', iROW) = << >>
                       /\ OfPad(serial', iROW) =
                             IF analogValue'[iROW] > pad.minAmplitude
                             THEN << NoteOnFor(iROW, pad) >>
                             ELSE << >>]_vars

\* The pedal has just gone up: one pad was swept off although its pin still
\* gives the threshold or less, and the other, inactive before, sent its
\* note on.
C3_Witness ==
    /\ ~curPedalState
    /\ \E iROW \in Rows, other \in Rows :
          /\ OfPad(serial, iROW) = << SweepFor(iROW, Pad(iROW)) >>
          /\ ~Pad(iROW).active
          /\ OfPad(serial, other) = << NoteOnFor(other, Pad(other)) >>

----------------------------------------------------------------------------
(* C4 *)

\* C4 as claimed: a pad whose note is 0 is never active and has never sent
\* a message, in whichever column is selected.
C4_AsClaimed ==
    \A iROW \in Rows :
        Pad(iROW).note = 0 =>
            /\ ~Pad(iROW).active
            /\ OfPad(serial, iROW) = << >>
            /\ lastVelocity[iROW] = -1

----------------------------------------------------------------------------
(* C5 *)

\* C5: a pad that is inactive before a pass and whose pin gives more than
\* the threshold is active after it, with curAmplitude the value read, and
\* sends exactly one message, the note on with its note and velocity 127,
\* whether the pedal is down or up; when the pin gives exactly the threshold
\* it stays inactive and sends nothing.
C5_Trigger ==
    [][\A iROW \in Rows :
          LET pad == pads[iROW][COLUMN]
          IN  ~pad.active =>
                 /\ analogValue'[iROW] > pad.minAmplitude =>
                       /\ pads'[iROW][COLUMN].active
                       /\ pads'[iROW][COLUMN].curAmplitude = analogValue'[iROW]
                       /\ OfPad(serial', iROW) = << NoteOnFor(iROW, pad) >>
                 /\ analogValue'[iROW] = pad.minAmplitude =>
                       /\ ~pads'[iROW][COLUMN].active
                       /\ OfPad(serial', iROW) = << >>]_vars

\* A pad was struck at the top of the range while the pedal is down, and the
\* other pad, at exactly the threshold, has never sounded.
C5_Witness ==
    /\ curPedalState
    /\ \E iROW \in Rows, other \in Rows :
          /\ Pad(iROW).active
          /\ analogValue[iROW] = 1023
          /\ Pad(iROW).curAmplitude = 1023
          /\ OfPad(serial, iROW) = << NoteOnFor(iROW, Pad(iROW)) >>
          /\ cycle >= 1
          /\ analogValue[other] = Pad(other).minAmplitude
          /\ lastVelocity[other] = -1

----------------------------------------------------------------------------
(* C6 *)

\* C6: when the pedal does not go up in the pass, a pad that is active
\* before it and whose pin gives more than the threshold sends nothing and
\* keeps its whole state, pedal down or up.
C6_NoRetrigger ==
    [][\A iROW \in Rows :
          (/\ pads[iROW][COLUMN].active
           /\ ~PedalFalls
           /\ analogValue'[iROW] > pads[iROW][COLUMN].minAmplitude)
          => /\ pads'[iROW][COLUMN] = pads[iROW][COLUMN]
             /\ OfPad(serial', iROW) = << >>]_vars

\* An active pad was read above the threshold, at another value than the one
\* that triggered it, and sent nothing.
C6_Witness ==
    \E iROW \in Rows :
        /\ Pad(iROW).active
        /\ analogValue[iROW] > Pad(iROW).minAmplitude
        /\ Pad(iROW).curAmplitude # analogValue[iROW]
        /\ OfPad(serial, iROW) = << >>

----------------------------------------------------------------------------
(* C7 *)

\* C7: with the pedal up before and after the pass, an active pad sends
\* nothing and stays active while its pin gives more than the threshold, and
\* in the first pass in which it gives the threshold or less it sends exactly
\* one note off, from do_channel, and is inactive afterwards; from then on,
\* while the pin gives the threshold or less, it sends nothing.
C7_Release ==
    [][(~curPedalState /\ ~curPedalState') =>
          \A iROW \in Rows :
              LET pad == pads[iROW][COLUMN]
                  quiet == analogValue'[iROW] <= pad.minAmplitude
              IN  /\ (pad.active /\ ~quiet) =>
                         /\ OfPad(serial', iROW) = << >>
                         /\ pads'[iROW][COLUMN].active
                  /\ (pad.active /\ quiet) =>
                         /\ OfPad(serial', iROW) = << ReleaseFor(iROW, pad) >>
                         /\ ~pads'[iROW][COLUMN].active
                  /\ (~pad.active /\ quiet) =>
                         /\ OfPad(serial', iROW) = << >>
                         /\ ~pads'[iROW][COLUMN].active]_vars

\* The pedal is up and a pad has just sent its note off from do_channel at
\* exactly the threshold.
C7_Witness ==
    /\ ~curPedalState
    /\ \E iROW \in Rows :
          /\ ~Pad(iROW).active
          /\ analogValue[iROW] = Pad(iROW).minAmplitude
          /\ OfPad(serial, iROW) = << ReleaseFor(iROW, Pad(iROW)) >>

----------------------------------------------------------------------------
(* C8 *)

\* C8: a pad that is inactive before a pass and whose pin gives the
\* threshold or less keeps its whole state, curAmplitude included, and sends
\* nothing, whatever the pedal does in that pass.
C8_Silence ==
    [][\A iROW \in Rows :
          (/\ ~pads[iROW][COLUMN].active
           /\ analogValue'[iROW] <= pads[iROW][COLUMN].minAmplitude)
          => /\ pads'[iROW][COLUMN] = pads[iROW][COLUMN]
             /\ OfPad(serial', iROW) = << >>]_vars

\* A pad that has sounded before and is now off is read at the threshold or
\* less with the pedal down, and sends nothing.
C8_Witness ==
    /\ curPedalState
    /\ \E iROW \in Rows :
          /\ ~Pad(iROW).active
          /\ lastVelocity[iROW] = 0
          /\ analogValue[iROW] <= Pad(iROW).minAmplitude
          /\ OfPad(serial, iROW) = << >>

----------------------------------------------------------------------------
(* C9 *)

\* The scenario: what the pin of pad 0 gives and whether the pedal is down,
\* pass by pass.  The other pad is free.
ScenarioSamples == << 10, 45, 5, 5 >>

ScenarioHeld == << FALSE, FALSE, TRUE, FALSE >>

\* The level of the pedal pin for a pedal state: the switch pulls it low.
PinFor(held) == IF held THEN LOW ELSE HIGH

\* The board of column 0, where pad 0 has note 53.
ScenarioInit == Init /\ ARDUINO_NUMBER = 0

\* Any passes before the scenario starts.
ScenarioPrelude == scenarioPass = 0 /\ Loop

\* The next pass of the scenario; it starts right after power up or after
\* any passes that leave pad 0 inactive.
ScenarioLoop ==
    /\ scenarioPass < Len(ScenarioSamples)
    /\ scenarioPass = 0 => ~Pad(0).active
    /\ \E adc \in [Rows -> Samples] :
          /\ adc[0] = ScenarioSamples[scenarioPass + 1]
          /\ Pass(PinFor(ScenarioHeld[scenarioPass + 1]), adc)
    /\ scenarioPass' = scenarioPass + 1

ScenarioNext == ScenarioPrelude \/ ScenarioLoop

ScenarioSpec == ScenarioInit /\ [][ScenarioNext]_vars

\* C9: pad 0 of column 0 has note 53 and threshold 30; in the scenario it
\* sends nothing in pass 1, the note on 53 with velocity 127 in pass 2,
\* nothing in pass 3, where the pedal is down and it stays active, and in
\* pass 4 one note off 53, sent by the sweep of loop and not by do_channel,
\* which finds the pad inactive.
C9_Scenario ==
    /\ Pad(0).note = 53 /\ Pad(0).minAmplitude = 30
    /\ scenarioPass = 1 => OfPad(serial, 0) = << >> /\ ~Pad(0).active
    /\ scenarioPass = 2 =>
          /\ OfPad(serial, 0) = << Written(0, "do_channel", <<144, 53, 127>>) >>
          /\ Pad(0).active
    /\ scenarioPass = 3 => OfPad(serial, 0) = << >> /\ Pad(0).active
    /\ scenarioPass = 4 =>
          /\ OfPad(serial, 0) = << Written(0, "loop", <<144, 53, 0>>) >>
          /\ ~Pad(0).active

\* The end of the scenario played from power up: the fourth pass has sent
\* the note off of pad 0 from the sweep.
C9_Witness ==
    /\ scenarioPass = 4
    /\ cycle = 4
    /\ analogValue[0] = 5
    /\ ~curPedalState
    /\ OfPad(serial, 0) = << Written(0, "loop", <<144, 53, 0>>) >>

----------------------------------------------------------------------------
(* C10 *)

\* C10 as claimed: every message carries a pitch in 1 .. 127, a note on has
\* velocity 127 and every other message is a note off with velocity 0.
C10_AsClaimed ==
    \A i \in 1 .. Len(serial) :
        /\ serial[i].bytes[2] \in 1 .. 127
        /\ serial[i].bytes[3] \in {0, 127}
        /\ IsNoteOn(serial[i]) => serial[i].bytes[3] = 127
        /\ IsNoteOn(serial[i]) \/ IsNoteOff(serial[i])

----------------------------------------------------------------------------
(* C11 *)

\* C11: the messages of a pass come in a fixed order: the note offs of the
\* sweep of loop first, by ascending row, then the messages of do_channel,
\* by ascending row; the rows of each part ascend strictly, so the sweep and
\* do_channel each send at most one message for a pad in a pass.
C11_Order ==
    /\ \A i \in 1 .. Len(serial) : serial[i].from = "loop" => IsNoteOff(serial[i])
    /\ \A i \in 1 .. Len(serial) : \A j \in 1 .. Len(serial) :
          i < j =>
              /\ serial[i].from = "do_channel" => serial[j].from = "do_channel"
              /\ serial[i].from = serial[j].from => serial[i].pad < serial[j].pad

\* A pass in which both pads were swept off and both were struck again:
\* two note offs of loop, then two note ons of do_channel.
C11_Witness ==
    /\ Len(serial) = 4
    /\ serial[1].from = "loop" /\ serial[1].pad = 0
    /\ serial[2].from = "loop" /\ serial[2].pad = ROWS - 1
    /\ serial[3].from = "do_channel" /\ serial[3].pad = 0
    /\ serial[4].from = "do_channel" /\ serial[4].pad = ROWS - 1

----------------------------------------------------------------------------
(* C12 *)

\* C12 as claimed: while a pad is active, curAmplitude is the least value
\* read since the pad went active, the triggering one included.  It is
\* stated of the pads that have read only values above the threshold since
\* they went active, where the floor of line 186 plays no part.
C12_AsClaimed ==
    \A iROW \in Rows :
        (Pad(iROW).active /\ minSince[iROW] > Pad(iROW).minAmplitude) =>
            Pad(iROW).curAmplitude = minSince[iROW]

----------------------------------------------------------------------------
(* C13 *)

\* C13: from one pass to the next, curAmplitude of a pad that stays active
\* does not grow; it grows only in a pass that sends a note on for the pad,
\* to the value read; a pad that is off before and after the pass keeps it;
\* and the sweep of loop leaves it as it was.
C13_FloorSteps ==
    [][\A iROW \in Rows :
          LET pad == pads[iROW][COLUMN]
              after == pads'[iROW][COLUMN]
              mine == OfPad(serial', iROW)
          IN  /\ (pad.active /\ after.active /\ mine = << >>) =>
                     after.curAmplitude <= pad.curAmplitude
              /\ after.curAmplitude > pad.curAmplitude =>
                     /\ ~pad.active \/ PedalFalls
                     /\ mine # << >>
                     /\ mine[Len(mine)] = NoteOnFor(iROW, pad)
                     /\ after.curAmplitude = analogValue'[iROW]
              /\ (~pad.active /\ ~after.active) =>
                     after.curAmplitude = pad.curAmplitude
              /\ (mine = << SweepFor(iROW, pad) >>) =>
                     after.curAmplitude = pad.curAmplitude]_vars

\* A pad was swept off, its curAmplitude still the value that triggered it.
C13_Witness ==
    \E iROW \in Rows :
        /\ OfPad(serial, iROW) = << SweepFor(iROW, Pad(iROW)) >>
        /\ ~Pad(iROW).active
        /\ Pad(iROW).curAmplitude = 1023

----------------------------------------------------------------------------
(* C14 *)

\* C14: when do_channel finds a pad active and reads the threshold or less,
\* curAmplitude is the threshold afterwards: with the pedal down the pad
\* stays active and sends nothing, with the pedal up it goes off with one
\* note off.  No value below the threshold is ever left in curAmplitude.
C14_Floor ==
    [][\A iROW \in Rows :
          LET pad == pads[iROW][COLUMN]
              after == pads'[iROW][COLUMN]
          IN  /\ (/\ pad.active
                  /\ ~PedalFalls
                  /\ analogValue'[iROW] <= pad.minAmplitude)
                 => /\ after.curAmplitude = pad.minAmplitude
                    /\ after.active = curPedalState'
                    /\ OfPad(serial', iROW) =
                          IF curPedalState'
                          THEN << >>
                          ELSE << ReleaseFor(iROW, pad) >>
              /\ analogValue'[iROW] < pad.minAmplitude =>
                    after.curAmplitude # analogValue'[iROW]]_vars

\* With the pedal down an active pad, triggered at a higher value, read 5
\* and holds the threshold in curAmplitude.
C14_Witness ==
    /\ curPedalState
    /\ \E iROW \in Rows :
          /\ Pad(iROW).active
          /\ analogValue[iROW] = 5
          /\ minSince[iROW] = 5
          /\ Pad(iROW).curAmplitude = Pad(iROW).minAmplitude

----------------------------------------------------------------------------
(* C15 *)

\* C15: in a pass where the pedal does not go from down to up, that is
\* where it goes down or stays as it was, loop's handling of the pedal sends
\* nothing and changes no pad: no message comes from the sweep, and every
\* pad and its messages are what do_channel alone makes of the pad as it was
\* before the pass.  So the sweep runs only in a pass that finds the stored
\* state down and reads the pedal up.  After every pass the stored pedal
\* state is the level read, which the LED shows.
C15_PedalEdges ==
    /\ [](curPedalState <=> led = HIGH)
    /\ [][~PedalFalls =>
            /\ \A i \in 1 .. Len(serial') : serial'[i].from # "loop"
            /\ \A iROW \in Rows :
                  LET alone == do_channel(analogValue'[iROW], pads[iROW][COLUMN],
                                          iROW, curPedalState')
                  IN  /\ pads'[iROW][COLUMN] = alone.pad
                      /\ OfPad(serial', iROW) = alone.out]_vars

\* The first pass reads the pedal down, a rising edge: pad 0 was struck and
\* sent its note on, the last pad stayed silent, the LED is on.
C15_Witness ==
    /\ cycle = 1
    /\ curPedalState
    /\ led = HIGH
    /\ serial = << NoteOnFor(0, Pad(0)) >>
    /\ ~Pad(ROWS - 1).active

----------------------------------------------------------------------------
(* C16 *)

\* What a pass makes of one pad taken by itself: its own state before the
\* pass, the value read from its own pin, and the pedal before and after.
OwnPass(pad, iROW, oldPedalState, newPedalState, value) ==
    LET swept == IF oldPedalState /\ ~newPedalState
                 THEN release_pad(pad, iROW)
                 ELSE [pad |-> pad, out |-> << >>]
        scanned == do_channel(value, swept.pad, iROW, newPedalState)
    IN  [pad |-> scanned.pad, out |-> swept.out \o scanned.out]

\* C16: the pads are independent.  In every pass the state of a pad
\* afterwards and the messages sent for it are those of OwnPass, a function
\* of the pad's own state, its own pin and the pedal alone: nothing read for
\* or stored in another pad enters, and the slots of the other columns stay
\* as they were.  Two runs that differ only in what the other pins give
\* therefore give the pad the same messages and the same state, pass by pass.
C16_Independent ==
    [][\A iROW \in Rows :
          LET own == OwnPass(pads[iROW][COLUMN], iROW, curPedalState,
                             curPedalState', analogValue'[iROW])
          IN  /\ pads'[iROW][COLUMN] = own.pad
              /\ OfPad(serial', iROW) = own.out
              /\ \A iCOLUMN \in Columns \ {COLUMN} :
                    pads'[iROW][iCOLUMN] = pads[iROW][iCOLUMN]]_vars

\* One pass took the two pads opposite ways: pad 0 was struck and sent its
\* note on while the last pad, reading 5 with the pedal up, sent its note off.
C16_Witness ==
    /\ ~curPedalState
    /\ analogValue[0] = 1023
    /\ analogValue[ROWS - 1] = 5
    /\ serial = << NoteOnFor(0, Pad(0)), ReleaseFor(ROWS - 1, Pad(ROWS - 1)) >>
    /\ Pad(0).active
    /\ ~Pad(ROWS - 1).active

----------------------------------------------------------------------------
(* C17 *)

\* C17: after a pass that reads the pedal up, the pass where it goes up
\* included, a pad is active exactly when its pin gave more than the
\* threshold in that pass; after a pass that reads the pedal down, it is
\* active exactly when it was active before the pass or its pin gave more
\* than the threshold.
C17_ActiveAfterPass ==
    [][\A iROW \in Rows :
          LET struck == analogValue'[iROW] > pads[iROW][COLUMN].minAmplitude
          IN  pads'[iROW][COLUMN].active <=>
                  IF curPedalState'
                  THEN pads[iROW][COLUMN].active \/ struck
                  ELSE struck]_vars

\* The pedal is up: a pad that sounded before reads the threshold and is
\* off, the other reads more and is active, although it sent nothing in
\* this pass.
C17_Witness ==
    /\ ~curPedalState
    /\ \E iROW \in Rows, other \in Rows :
          /\ analogValue[iROW] = Pad(iROW).minAmplitude
          /\ ~Pad(iROW).active
          /\ lastVelocity[iROW] = 0
          /\ analogValue[other] > Pad(other).minAmplitude
          /\ Pad(other).active
          /\ OfPad(serial, other) = << >>

----------------------------------------------------------------------------
(* C18 *)

\* C18: in the pass where the pedal goes up, a pad that was active and
\* whose pin still gives more than the threshold sends the note off of the
\* sweep and then the note on of do_channel, and is active after the pass
\* with curAmplitude the value read; and a pad sends two messages in a pass
\* in this case only, and never more than two.
C18_ReleaseAndRetrigger ==
    [][\A iROW \in Rows :
          LET pad == pads[iROW][COLUMN]
              after == pads'[iROW][COLUMN]
              mine == OfPad(serial', iROW)
              case == /\ PedalFalls
                      /\ pad.active
                      /\ analogValue'[iROW] > pad.minAmplitude
          IN  /\ case => /\ mine = << SweepFor(iROW, pad), NoteOnFor(iROW, pad) >>
                         /\ after.active
                         /\ after.curAmplitude = analogValue'[iROW]
              /\ Len(mine) >= 2 => case
              /\ Len(mine) <= 2]_vars

\* The pedal has just gone up: a pad was swept off and struck again at 1023,
\* which is now its curAmplitude.
C18_Witness ==
    /\ ~curPedalState
    /\ \E iROW \in Rows :
          /\ OfPad(serial, iROW) =
                << SweepFor(iROW, Pad(iROW)), NoteOnFor(iROW, Pad(iROW)) >>
          /\ Pad(iROW).active
          /\ analogValue[iROW] = 1023
          /\ Pad(iROW).curAmplitude = 1023
          /\ minSince[iROW] = 1023

----------------------------------------------------------------------------
(* C19 *)

\* C19: no note stays stuck.  After every pass that reads the pedal up and
\* reads the threshold or less from a pad's pin, the pad is off and its last
\* message, if it ever sent one, is a note off; when the pad was active
\* before that pass, the pass itself sent exactly one note off for it.  So a
\* pad stays active over a pass only when the pedal is read down or its pin
\* gives more than the threshold.
C19_NoStuckNote ==
    [][\A iROW \in Rows :
          LET pad == pads[iROW][COLUMN]
              quietAndUp == /\ ~curPedalState'
                            /\ analogValue'[iROW] <= pad.minAmplitude
          IN  /\ quietAndUp =>
                    /\ ~pads'[iROW][COLUMN].active
                    /\ lastVelocity'[iROW] <= 0
                    /\ pad.active => /\ Len(OfPad(serial', iROW)) = 1
                                     /\ IsNoteOff(OfPad(serial', iROW)[1])
              /\ (pad.active /\ pads'[iROW][COLUMN].active) => ~quietAndUp]_vars

\* The pedal has just gone up and the sweep sent the note off of a pad whose
\* pin reads 10; the pad is off and its last message is that note off.
C19_Witness ==
    /\ ~curPedalState
    /\ \E iROW \in Rows :
          /\ analogValue[iROW] = 10
          /\ OfPad(serial, iROW) = << SweepFor(iROW, Pad(iROW)) >>
          /\ ~Pad(iROW).active
          /\ lastVelocity[iROW] = 0

----------------------------------------------------------------------------
(* C20 *)

\* C20: at the end of every pass, for values read in 0 .. 1023, curAmplitude
\* of every pad is at least its minAmplitude: it is the threshold at first,
\* a value read above the threshold after a trigger, and the threshold again
\* after a reading at or below it while the pad is active.
C20_FloorAtLeastThreshold ==
    \A iROW \in Rows :
        /\ Pad(iROW).curAmplitude >= Pad(iROW).minAmplitude
        /\ \/ Pad(iROW).curAmplitude = Pad(iROW).minAmplitude
           \/ Pad(iROW).curAmplitude \in
                 {v \in Samples : v > Pad(iROW).minAmplitude}

\* One pad holds the top of the range, 1023, and the other, which sounded
\* and decayed to 5 under the pedal, holds the threshold.
C20_Witness ==
    \E iROW \in Rows, other \in Rows :
        /\ Pad(iROW).curAmplitude = 1023
        /\ Pad(other).active
        /\ minSince[other] = 5
        /\ Pad(other).curAmplitude = Pad(other).minAmplitude

====
